---- MODULE Spec2Model ----
(***************************************************************************)
(* Bulk-ingestion pipeline of AnginatAuthBackend: the orchestrator         *)
(* (processBulkUpload), the two readers (processCSV, processExcel), the    *)
(* batch flush (processBatch), the job document (BulkUploadJob) with its   *)
(* cleanup (cleanupOldJobs), and the cancel and status endpoints           *)
(* (cancelBulkUpload, getBulkUploadStatus).                                *)
(*                                                                         *)
(* Every action is one database operation (its effect on the stored        *)
(* documents) followed by the synchronous code that runs until the next    *)
(* database operation is issued, so the interleavings of the model are the *)
(* interleavings the event loop allows.                                    *)
(***************************************************************************)
EXTENDS Integers, Sequences, FiniteSets, TLC

(***************************************************************************)
(* Bounds                                                                  *)
(***************************************************************************)
\* longest file, in data rows
MaxRows == 4
\* this.BATCH_SIZE, scaled down from 1000
BATCH_SIZE == 3
\* metadata.maxErrors / this.MAX_ERRORS, scaled down from 100
MAX_ERRORS == 2
\* database operations that may fail (other than with a duplicate-key error)
MaxFaults == 1
\* cancel requests sent for one job
MaxCancels == 1
\* longest code cell the length test of extractCode is applied to
MaxCodeLen == 102

(***************************************************************************)
(* Values                                                                  *)
(***************************************************************************)
Jobs == {"j1", "j2"}

\* the users who send requests
Users == {"u1", "u2"}

\* null / undefined cell value (no character is the string "null")
NULL == <<"null">>

\* cell values of the code column; a string is a sequence of characters
codeA == <<"A", "B", "C">>
codeB == <<"D", "E", "F">>
codeC == <<"G", "H", "I">>
codeD == <<"J", "K", "L">>
codeE == <<"M", "N", "O">>
shortCode == <<"X", "Y">>
emptyString == <<>>

Cells == {codeA, codeB, codeC, codeD, codeE, shortCode, emptyString}

\* a row mapping is the ordered list of its <<key, value>> columns
Row(cell) == << <<"code", cell>> >>

Range(s) == {s[k] : k \in DOMAIN s}

RECURSIVE SeqsUpTo(_, _)
SeqsUpTo(S, n) ==
  IF n = 0 THEN {<<>>}
  ELSE LET shorter == SeqsUpTo(S, n - 1)
       IN shorter \cup {Append(s, x) : s \in {t \in shorter : Len(t) = n - 1}, x \in S}

\* the order in which the codes other than codeA first appear in a file
RECURSIVE firstSeen(_, _)
firstSeen(f, seen) ==
  IF f = <<>> THEN seen
  ELSE LET c == f[1][1][2]
       IN firstSeen(Tail(f),
            IF c \in {codeB, codeC, codeD, codeE} /\ c \notin Range(seen)
            THEN Append(seen, c) ELSE seen)

\* codeB to codeE are interchangeable (nothing in the program tells one
\* unstored code from another), so one file of each renaming class is kept:
\* the one that introduces them in this order
canonical(f) ==
  firstSeen(f, <<>>) \in
    {<<>>, <<codeB>>, <<codeB, codeC>>, <<codeB, codeC, codeD>>,
     <<codeB, codeC, codeD, codeE>>}

Files == {f \in SeqsUpTo({Row(c) : c \in Cells}, MaxRows) : canonical(f)}

\* a line of a csv file that the parser cannot turn into a record (a quote that
\* is opened and not closed): it is never handed to the 'data' handler
malformedLine == << <<"unparsed", NULL>> >>

\* csv files with one malformed line among rows that hold codeB
MalformedFiles ==
  {f \in SeqsUpTo({Row(codeB), malformedLine}, MaxRows) :
     Cardinality({k \in DOMAIN f : f[k] = malformedLine}) = 1}

(***************************************************************************)
(* extractCode                                                             *)
(***************************************************************************)
isSpace(ch) == ch \in {" ", "\t", "\n"}

RECURSIVE trimStart(_)
trimStart(s) ==
  IF s # <<>> /\ isSpace(Head(s)) THEN trimStart(Tail(s)) ELSE s

RECURSIVE trimEnd(_)
trimEnd(s) ==
  IF s # <<>> /\ isSpace(s[Len(s)]) THEN trimEnd(SubSeq(s, 1, Len(s) - 1)) ELSE s

trim(s) == trimEnd(trimStart(s))

\* JavaScript truthiness of a cell: null and '' are falsy
truthy(v) == v # NULL /\ v # emptyString

aliases ==
  <<"code", "Code", "CODE", "auth_code", "authCode", "AuthCode",
    "authentication_code", "Authentication Code">>

\* row[key], undefined (NULL) when the key is absent
lookup(row, key) ==
  IF \E k \in DOMAIN row : row[k][1] = key
  THEN row[CHOOSE k \in DOMAIN row : row[k][1] = key /\
                 \A m \in DOMAIN row : row[m][1] = key => k <= m][2]
  ELSE NULL

RECURSIVE firstTruthy(_, _)
\* the a || b || ... chain over the aliases, ending in Object.values(row)[0]
firstTruthy(row, keys) ==
  IF keys = <<>>
  THEN IF row = <<>> THEN NULL ELSE row[1][2]
  ELSE IF truthy(lookup(row, Head(keys)))
       THEN lookup(row, Head(keys))
       ELSE firstTruthy(row, Tail(keys))

\* the two ends of the range are rejected as well
lengthOutOfRange_exclusive(n) == n <= 3 \/ n >= 100

\* trimmed.length < 3 || trimmed.length > 100
lengthOutOfRange(n) == n < 3 \/ n > 100

extractCode(row) ==
  LET code == firstTruthy(row, aliases)
  IN IF ~truthy(code) THEN [kind |-> "null", code |-> NULL]
     ELSE IF lengthOutOfRange(Len(trim(code)))
          THEN [kind |-> "throw", code |-> NULL]
          ELSE [kind |-> "code", code |-> trim(code)]

(***************************************************************************)
(* BulkUploadJob document                                                  *)
(***************************************************************************)
\* Math.floor in place of Math.round
MathRound_floor(num, den) == num \div den

\* Math.round(num / den) for num >= 0, den > 0
MathRound(num, den) == (2 * num + den) \div (2 * den)

newProgress ==
  [total |-> 0, processed |-> 0, successful |-> 0, failed |-> 0,
   duplicates |-> 0, percentage |-> 0]

\* BulkUploadJob.create({... status: 'pending'}) with the schema defaults;
\* createdAt is the day of the creation ({ timestamps: true }), userId the user
\* who uploaded the file (req.user._id)
newJob ==
  [status |-> "pending", progress |-> newProgress, errors |-> <<>>,
   startTime |-> FALSE, endTime |-> FALSE, createdAt |-> 0, userId |-> "u1"]

\* Object.assign(this.progress, update)
assign(progress, update) ==
  [k \in DOMAIN progress |->
     IF k \in DOMAIN update THEN update[k] ELSE progress[k]]

recomputed(progress) ==
  IF progress.total > 0
  THEN [progress EXCEPT !.percentage = MathRound(progress.processed * 100, progress.total)]
  ELSE progress

\* the document after updateProgress(update), before it is saved
updateProgress(doc, update) ==
  [doc EXCEPT !.progress = recomputed(assign(doc.progress, update))]

\* the document after addError(error), before it is saved
addError(doc, error) ==
  IF Len(doc.errors) < MAX_ERRORS
  THEN [doc EXCEPT !.errors = Append(doc.errors, error)]
  ELSE doc

\* BulkUploadJob.findOne({ jobId }) found nothing
NoJob == [status |-> "missing"]

\* the whole in-memory document replaces the stored one
save_whole(stored, doc, paths) ==
  IF stored = NoJob THEN stored ELSE doc

\* doc.save(): writes the modified paths of the in-memory document
save(stored, doc, paths) ==
  IF stored = NoJob THEN stored
  ELSE [f \in DOMAIN stored |-> IF f \in paths THEN doc[f] ELSE stored[f]]

Terminal == {"completed", "failed", "cancelled"}

(***************************************************************************)
(* State                                                                   *)
(***************************************************************************)
VARIABLES
  authCodes,   \* AuthCode collection: the set of stored code strings
  authCodes0,  \* the AuthCode collection before any job ran
  brand,       \* the Brand document: [exists, totalCodes]
  faults,      \* database operations that have failed so far
  db,          \* BulkUploadJob collection: jobId -> stored document
  upload,      \* jobId -> what the run was called with: the file [fileType, readable, rows], and io
  tmpFile,     \* jobId -> the temporary file: "present", "removed", "kept" (unlink threw), "none"
  pc,          \* jobId -> where the orchestrator run of the job stands
  job,         \* jobId -> the run's in-memory job document
  run,         \* jobId -> the locals of processCSV / processExcel / processBatch
  result,      \* jobId -> how the promise of processBulkUpload settled
  cancelPc,    \* jobId -> where the cancel request for the job stands
  cancelDoc,   \* jobId -> the document the cancel request loaded (and answers with)
  cancelResp,  \* jobId -> HTTP status of the last cancel response (0: none)
  cancels,     \* jobId -> cancel requests sent so far
  emitted,     \* jobId -> the last 'bulkUploadProgress' event of the job, and their number
  clock,       \* new Date(): the day it is
  statusResp   \* jobId -> the last answer of getBulkUploadStatus for the job

vars ==
  <<authCodes, authCodes0, brand, faults, db, upload, tmpFile, pc, job, run, result,
    cancelPc, cancelDoc, cancelResp, cancels, emitted, clock, statusResp>>

storeVars == <<authCodes, authCodes0, brand, faults>>
cancelVars == <<cancelPc, cancelDoc, cancelResp, cancels>>

NoUpload == [fileType |-> "none", readable |-> FALSE, rows |-> <<>>, io |-> "none"]

\* an unreadable file has no rows, and the rows of an unsupported kind are never
\* read; io is req.app.get('io'), the server that server.js sets on the app
Uploads ==
  {[fileType |-> t, readable |-> TRUE, rows |-> f, io |-> "present"] : t \in {"csv", "xlsx"}, f \in Files}
  \cup {[fileType |-> "csv", readable |-> TRUE, rows |-> f, io |-> "present"] : f \in MalformedFiles}
  \cup {[fileType |-> t, readable |-> FALSE, rows |-> <<>>, io |-> "present"] : t \in {"csv", "xlsx"}}
  \cup {[fileType |-> "pdf", readable |-> TRUE, rows |-> <<>>, io |-> "present"]}

noStats == [processed |-> 0, successful |-> 0, failed |-> 0, duplicates |-> 0]

newRun ==
  [i |-> 0, codes |-> <<>>, errors |-> <<>>,
   processedCount |-> 0, successfulCount |-> 0, failedCount |-> 0,
   duplicatesCount |-> 0,
   ret |-> "none", newCodes |-> <<>>, batchDuplicates |-> 0, insertedCount |-> 0,
   error |-> "none"]

\* no event was emitted yet
noEvent == [n |-> 0, status |-> "none", progress |-> newProgress, errors |-> <<>>]

\* the payload of emitProgress: status, progress and the first 10 errors of the
\* in-memory document, as the n-th event of the job
progressEvent(n, doc) ==
  [n |-> n, status |-> doc.status, progress |-> doc.progress,
   errors |-> SubSeq(doc.errors, 1, IF Len(doc.errors) < 10 THEN Len(doc.errors) ELSE 10)]

\* getBulkUploadStatus has not answered yet
noAnswer == [code |-> 0, data |-> NoJob]

noResult == [outcome |-> "none", stats |-> noStats, errors |-> <<>>, error |-> "none"]

\* one job was accepted by bulkUpload (or its record is gone) and its run is scheduled
InitOne(u, d, b, s) ==
  /\ authCodes = s
  /\ authCodes0 = s
  /\ brand = [exists |-> b, totalCodes |-> 0]
  /\ faults = 0
  /\ db = [j \in Jobs |-> IF j = "j1" THEN d ELSE NoJob]
  /\ upload = [j \in Jobs |-> IF j = "j1" THEN u ELSE NoUpload]
  /\ tmpFile = [j \in Jobs |-> IF j = "j1" THEN "present" ELSE "none"]
  /\ pc = [j \in Jobs |-> IF j = "j1" THEN "scheduled" ELSE "idle"]
  /\ job = [j \in Jobs |-> NoJob]
  /\ run = [j \in Jobs |-> newRun]
  /\ result = [j \in Jobs |-> noResult]
  /\ cancelPc = [j \in Jobs |-> "idle"]
  /\ cancelDoc = [j \in Jobs |-> NoJob]
  /\ cancelResp = [j \in Jobs |-> 0]
  /\ cancels = [j \in Jobs |-> 0]
  /\ emitted = [j \in Jobs |-> noEvent]
  /\ clock = 0
  /\ statusResp = [j \in Jobs |-> noAnswer]

\* codeA is the code that is stored before the job runs; a file without codeA
\* meets a store that holds none of its codes
Init ==
  \E u \in Uploads, d \in {newJob, NoJob}, b \in BOOLEAN : InitOne(u, d, b, {codeA})

(***************************************************************************)
(* processBulkUpload: the catch block                                      *)
(***************************************************************************)
systemError(message) == [row |-> 0, code |-> "SYSTEM_ERROR", error |-> message]

\* job.status = 'failed'; endTime; addError pushes the system-level error
failedDoc(doc, message) ==
  addError([doc EXCEPT !.status = "failed", !.endTime = TRUE], systemError(message))

\* the temporary file is left alone
cleanupFile_skipped(j) == tmpFile' = tmpFile

\* fs.existsSync(filePath) && fs.unlinkSync(filePath), in a try whose catch only
\* logs: the file is removed, or unlinkSync threw and the file is kept
cleanupFile(j) ==
  \E outcome \in {"removed", "kept"} : tmpFile' = [tmpFile EXCEPT ![j] = outcome]

\* if (io) io.to(`user-${userId}`).emit('bulkUploadProgress', ...) with the
\* in-memory job; nothing happens without io
emitProgress(j) ==
  IF upload[j].io = "absent"
  THEN UNCHANGED emitted
  ELSE emitted' = [emitted EXCEPT ![j] = progressEvent(@.n + 1, job[j])]

\* an error reached the catch block while `job` is set: the failed state is
\* prepared in memory and its save is issued
enterCatch(j, r, message) ==
  /\ job' = [job EXCEPT ![j] = failedDoc(job[j], message)]
  /\ run' = [run EXCEPT ![j] = [r EXCEPT !.error = message]]
  /\ pc' = [pc EXCEPT ![j] = "save_failed"]
  /\ UNCHANGED <<tmpFile, result>>

(***************************************************************************)
(* processBulkUpload: the try block up to the dispatch                     *)
(***************************************************************************)
\* job = await BulkUploadJob.findOne({ jobId })
processBulkUpload_findJob(j) ==
  /\ pc[j] = "scheduled"
  /\ IF db[j] = NoJob
     THEN \* throw new Error('Job not found'); the catch block skips `if (job)`
          /\ cleanupFile(j)
          /\ result' = [result EXCEPT ![j] =
                          [noResult EXCEPT !.outcome = "rejected", !.error = "Job not found"]]
          /\ pc' = [pc EXCEPT ![j] = "done"]
          /\ UNCHANGED job
     ELSE /\ job' = [job EXCEPT ![j] =
                       [db[j] EXCEPT !.status = "processing", !.startTime = TRUE]]
          /\ pc' = [pc EXCEPT ![j] = "save_processing"]
          /\ UNCHANGED <<tmpFile, result>>
  /\ UNCHANGED <<storeVars, db, upload, run, cancelVars>>
  /\ UNCHANGED <<emitted, clock, statusResp>>

\* await job.save() of status and summary.startTime
processBulkUpload_saveProcessing(j) ==
  /\ pc[j] = "save_processing"
  /\ db' = [db EXCEPT ![j] = save(db[j], job[j], {"status", "startTime"})]
  /\ pc' = [pc EXCEPT ![j] = "find_brand"]
  /\ UNCHANGED <<storeVars, upload, tmpFile, job, run, result, cancelVars>>
  /\ emitProgress(j)
  /\ UNCHANGED <<clock, statusResp>>

\* XLSX.readFile / sheet_to_json: the rows of the first sheet
sheetRows(u) == u.rows

\* the result object both readers return
pipelineResult(r) ==
  [outcome |-> "resolved",
   stats |-> [processed |-> r.processedCount, successful |-> r.successfulCount,
              failed |-> r.failedCount, duplicates |-> r.duplicatesCount],
   errors |-> SubSeq(r.errors, 1, IF Len(r.errors) < MAX_ERRORS THEN Len(r.errors) ELSE MAX_ERRORS),
   error |-> "none"]

\* the reader returned: result is set and Brand.findByIdAndUpdate is issued
pipelineDone(j, r) ==
  /\ run' = [run EXCEPT ![j] = r]
  /\ result' = [result EXCEPT ![j] = [pipelineResult(r) EXCEPT !.outcome = "none"]]
  /\ pc' = [pc EXCEPT ![j] = "inc_brand"]
  /\ UNCHANGED <<job, tmpFile>>

\* brand = await Brand.findById(brandId), then the dispatch on fileType
processBulkUpload_findBrand(j) ==
  /\ pc[j] = "find_brand"
  /\ IF ~brand.exists
     THEN enterCatch(j, run[j], "Brand not found")
     ELSE CASE upload[j].fileType = "csv" ->
                 \* processCSV: the stream is created, the handlers are attached
                 /\ pc' = [pc EXCEPT ![j] = "csv_stream"]
                 /\ UNCHANGED <<job, run, tmpFile, result>>
            [] upload[j].fileType = "xlsx" ->
                 IF upload[j].readable
                 THEN \* await job.updateProgress({ total: rows.length })
                      /\ job' = [job EXCEPT ![j] =
                                   updateProgress(job[j], [total |-> Len(sheetRows(upload[j]))])]
                      /\ pc' = [pc EXCEPT ![j] = "save_total"]
                      /\ UNCHANGED <<run, tmpFile, result>>
                 ELSE enterCatch(j, run[j], "Excel processing error")
            [] OTHER -> enterCatch(j, run[j], "Unsupported file type")
  /\ UNCHANGED <<storeVars, db, upload, cancelVars>>
  /\ UNCHANGED <<emitted, clock, statusResp>>

(***************************************************************************)
(* The row handling shared by the two readers                              *)
(***************************************************************************)
rowError(rowNumber, message) == [row |-> rowNumber, code |-> emptyString, error |-> message]

\* catch (error) { errors.push(...); failedCount++ }
rowFailed(r, rowNumber, message) ==
  [r EXCEPT !.errors = Append(@, rowError(rowNumber, message)),
            !.failedCount = @ + 1]

\* if (!code) { errors.push(...); failedCount++ } else { codes.push(...) }
rowTaken(r, ex, rowNumber) ==
  IF ex.kind = "null"
  THEN rowFailed(r, rowNumber, "Empty or missing code")
  ELSE [r EXCEPT !.codes = Append(@, [code |-> ex.code, rowNumber |-> rowNumber])]

lengthMessage == "Code length must be between 3-100 characters"

\* this.processBatch(codes, ...) is called: AuthCode.find is issued
callBatch(j, r, ret) ==
  /\ run' = [run EXCEPT ![j] = [r EXCEPT !.ret = ret]]
  /\ pc' = [pc EXCEPT ![j] = "batch_find"]
  /\ UNCHANGED <<job, tmpFile, result>>

\* the locals of processBatch go out of scope
batchLeft(r) ==
  [r EXCEPT !.ret = "none", !.newCodes = <<>>, !.batchDuplicates = 0, !.insertedCount = 0]

(***************************************************************************)
(* processExcel                                                            *)
(***************************************************************************)
\* the header row is not counted
rowNumberExcel_index(i) == i + 1

\* const rowNumber = i + 2
rowNumberExcel(i) == i + 2

flushDueExcel(r, i, n) == Len(r.codes) >= BATCH_SIZE \/ i = n - 1

\* i++ and the loop test; after the loop the result is returned
xlsxAdvance(j, r) ==
  LET r2 == [r EXCEPT !.i = @ + 1]
  IN IF r2.i < Len(sheetRows(upload[j]))
     THEN /\ run' = [run EXCEPT ![j] = r2]
          /\ pc' = [pc EXCEPT ![j] = "xlsx_loop"]
          /\ UNCHANGED <<job, tmpFile, result>>
     ELSE pipelineDone(j, r2)

\* the save of updateProgress({ total }), then the loop is entered
processExcel_saveTotal(j) ==
  /\ pc[j] = "save_total"
  /\ db' = [db EXCEPT ![j] = save(db[j], job[j], {"progress"})]
  /\ IF Len(sheetRows(upload[j])) > 0
     THEN /\ pc' = [pc EXCEPT ![j] = "xlsx_loop"]
          /\ UNCHANGED <<job, run, tmpFile, result>>
     ELSE pipelineDone(j, run[j])
  /\ UNCHANGED <<storeVars, upload, cancelVars>>
  /\ emitProgress(j)
  /\ UNCHANGED <<clock, statusResp>>

\* one iteration of the for loop, up to the call of processBatch
processExcel_row(j) ==
  /\ pc[j] = "xlsx_loop"
  /\ LET r == run[j]
         n == Len(sheetRows(upload[j]))
         rowNumber == rowNumberExcel(r.i)
         ex == extractCode(sheetRows(upload[j])[r.i + 1])
     IN IF ex.kind = "throw"
        THEN xlsxAdvance(j, rowFailed(r, rowNumber, lengthMessage))
        ELSE IF flushDueExcel(rowTaken(r, ex, rowNumber), r.i, n)
             THEN callBatch(j, rowTaken(r, ex, rowNumber), "xlsx")
             ELSE xlsxAdvance(j, rowTaken(r, ex, rowNumber))
  /\ UNCHANGED <<storeVars, db, upload, cancelVars>>
  /\ UNCHANGED <<emitted, clock, statusResp>>

(***************************************************************************)
(* processCSV                                                              *)
(***************************************************************************)
flushDueCSV(r) == Len(r.codes) >= BATCH_SIZE

\* the parser is never paused
flowing_always(j) == pc[j] \in {"csv_stream", "batch_find", "batch_insert", "batch_update"}

\* the parser emits 'data' and 'end': it was not paused (parser.pause() before
\* the flush, parser.resume() after it), and no final flush is in flight
flowing(j) == pc[j] = "csv_stream"

\* parser.on('data'): one record, while the parser is flowing
processCSV_data(j) ==
  /\ flowing(j)
  /\ upload[j].readable
  /\ run[j].i < Len(upload[j].rows)
  /\ upload[j].rows[run[j].i + 1] # malformedLine
  /\ LET r == [run[j] EXCEPT !.i = @ + 1]  \* rowNumber++
         rowNumber == r.i
         ex == extractCode(upload[j].rows[r.i])
     IN IF ex.kind = "throw"
        THEN /\ run' = [run EXCEPT ![j] = rowFailed(r, rowNumber, lengthMessage)]
             /\ UNCHANGED <<pc, job, tmpFile, result>>
        ELSE IF flushDueCSV(rowTaken(r, ex, rowNumber))
             THEN \* parser.pause(); this.processBatch(...)
                  callBatch(j, rowTaken(r, ex, rowNumber), "csv_data")
             ELSE /\ run' = [run EXCEPT ![j] = rowTaken(r, ex, rowNumber)]
                  /\ UNCHANGED <<pc, job, tmpFile, result>>
  /\ UNCHANGED <<storeVars, db, upload, cancelVars>>
  /\ UNCHANGED <<emitted, clock, statusResp>>

\* parser.on('end')
processCSV_end(j) ==
  /\ flowing(j)
  /\ upload[j].readable
  /\ run[j].i = Len(upload[j].rows)
  /\ IF Len(run[j].codes) > 0
     THEN callBatch(j, run[j], "csv_end")
     ELSE pipelineDone(j, run[j])
  /\ UNCHANGED <<storeVars, db, upload, cancelVars>>
  /\ UNCHANGED <<emitted, clock, statusResp>>

parseMessage == "Quote Not Closed"

\* the parser meets a line it cannot parse: no option of parse() lets it skip
\* the record, so it emits 'error' and stops; parser.on('error', reject)
\* rejects the promise of processCSV and the catch block of processBulkUpload runs
processCSV_parseError(j) ==
  /\ pc[j] = "csv_stream"
  /\ upload[j].readable
  /\ run[j].i < Len(upload[j].rows)
  /\ upload[j].rows[run[j].i + 1] = malformedLine
  /\ enterCatch(j, run[j], parseMessage)
  /\ UNCHANGED <<storeVars, db, upload, cancelVars>>
  /\ UNCHANGED <<emitted, clock, statusResp>>

\* fs.createReadStream emits 'error' on the read stream; only the parser has an
\* 'error' listener and pipe() forwards no errors, so the event is unhandled:
\* the process dies with an uncaught exception and the promise never settles
processCSV_readError(j) ==
  /\ pc[j] = "csv_stream"
  /\ ~upload[j].readable
  /\ pc' = [pc EXCEPT ![j] = "crashed"]
  /\ UNCHANGED <<storeVars, db, upload, tmpFile, job, run, result, cancelVars>>
  /\ UNCHANGED <<emitted, clock, statusResp>>

(***************************************************************************)
(* processBatch                                                            *)
(***************************************************************************)
\* AuthCode.find({ code: { $in: codeStrings } }) as a set
existingSet(codes, stored) == {c.code : c \in Range(codes)} \cap stored

\* the codes of the batch that the filter loop queues for insertion
queued(codes, existing) ==
  LET kept == SelectSeq(codes, LAMBDA c : c.code \notin existing)
  IN [k \in DOMAIN kept |-> kept[k].code]

\* the 'Duplicate code' errors the filter loop pushes, in batch order
duplicateErrors(codes, existing) ==
  LET hit == SelectSeq(codes, LAMBDA c : c.code \in existing)
  IN [k \in DOMAIN hit |->
        [row |-> hit[k].rowNumber, code |-> hit[k].code, error |-> "Duplicate code"]]

\* an ordered write: it stops at the first entry the unique index rejects
inserted_ordered(newCodes, stored) ==
  {newCodes[k] : k \in {m \in DOMAIN newCodes :
                          \A n \in 1..m :
                            /\ newCodes[n] \notin stored
                            /\ \A q \in 1..(n - 1) : newCodes[q] # newCodes[n]}}

\* insertMany(newCodes, { ordered: false }): the unique index lets in one
\* document per code that is not stored yet, whatever the order
inserted(newCodes, stored) == Range(newCodes) \ stored

\* error.writeErrors.length of the duplicate-key bulk write error
writeErrors(newCodes, stored) == Len(newCodes) - Cardinality(inserted(newCodes, stored))

\* the write errors are not taken off the inserted count
insertedCountOf_all(newCodes, stored) == Len(newCodes)

\* insertedCount: result.length, or newCodes.length - error.writeErrors.length
insertedCountOf(newCodes, stored) ==
  IF writeErrors(newCodes, stored) = 0
  THEN Len(newCodes)
  ELSE Len(newCodes) - writeErrors(newCodes, stored)

\* the duplicates are not taken off the failures
batchFailed_keepsDuplicates(n, insertedCount, duplicatesCount) == n - insertedCount

\* const failed = codes.length - insertedCount - duplicatesCount
batchFailed(n, insertedCount, duplicatesCount) == n - insertedCount - duplicatesCount

batchStats(r) ==
  [processed |-> Len(r.codes),
   successful |-> r.insertedCount,
   failed |-> batchFailed(Len(r.codes), r.insertedCount, r.batchDuplicates),
   duplicates |-> r.batchDuplicates]

\* job.updateProgress({ processed: job.progress.processed + processed, ... })
progressUpdate(doc, stats) ==
  updateProgress(doc,
    [processed |-> doc.progress.processed + stats.processed,
     successful |-> doc.progress.successful + stats.successful,
     failed |-> doc.progress.failed + stats.failed,
     duplicates |-> doc.progress.duplicates + stats.duplicates])

\* the counters are known: job.updateProgress is called and its save issued
issueUpdate(j, r) ==
  /\ run' = [run EXCEPT ![j] = r]
  /\ job' = [job EXCEPT ![j] = progressUpdate(job[j], batchStats(r))]
  /\ pc' = [pc EXCEPT ![j] = "batch_update"]
  /\ UNCHANGED <<tmpFile, result>>

batchMessage == "Batch processing error"

\* processBatch threw: the CSV handlers reject the promise, the loop of
\* processExcel catches the error as a row error and goes on with codes kept
batchThrew(j, r) ==
  IF r.ret = "xlsx"
  THEN xlsxAdvance(j, rowFailed(batchLeft(r), rowNumberExcel(r.i), batchMessage))
  ELSE enterCatch(j, batchLeft(r), batchMessage)

\* stats came back to the caller
accumulated(r, stats) ==
  [r EXCEPT !.processedCount = @ + stats.processed,
            !.successfulCount = @ + stats.successful,
            !.failedCount = @ + stats.failed,
            !.duplicatesCount = @ + stats.duplicates]

\* the batch buffer is not emptied after a flush
cleared_not(r) == r

\* codes.length = 0
cleared(r) == [r EXCEPT !.codes = <<>>]

batchReturned(j, r) ==
  LET r1 == accumulated(r, batchStats(r))
  IN CASE r.ret = "csv_data" ->
            \* codes.length = 0; parser.resume()
            /\ run' = [run EXCEPT ![j] = batchLeft(cleared(r1))]
            /\ pc' = [pc EXCEPT ![j] = "csv_stream"]
            /\ UNCHANGED <<job, tmpFile, result>>
       [] r.ret = "csv_end" -> pipelineDone(j, batchLeft(r1))
       [] OTHER -> xlsxAdvance(j, batchLeft(cleared(r1)))

\* AuthCode.find answers; the filter loop runs; insertMany is issued if needed
processBatch_find(j) ==
  /\ pc[j] = "batch_find"
  /\ LET r == run[j]
         existing == existingSet(r.codes, authCodes)
         r1 == [r EXCEPT !.newCodes = queued(r.codes, existing),
                         !.batchDuplicates = Len(duplicateErrors(r.codes, existing)),
                         !.errors = @ \o duplicateErrors(r.codes, existing),
                         !.insertedCount = 0]
     IN IF Len(r1.newCodes) > 0
        THEN /\ run' = [run EXCEPT ![j] = r1]
             /\ pc' = [pc EXCEPT ![j] = "batch_insert"]
             /\ UNCHANGED <<job, tmpFile, result>>
        ELSE issueUpdate(j, r1)
  /\ UNCHANGED <<storeVars, db, upload, cancelVars>>
  /\ UNCHANGED <<emitted, clock, statusResp>>

\* AuthCode.find fails (storage outage)
processBatch_findThrows(j) ==
  /\ pc[j] = "batch_find"
  /\ faults < MaxFaults
  /\ faults' = faults + 1
  /\ batchThrew(j, run[j])
  /\ UNCHANGED <<authCodes, authCodes0, brand, db, upload, cancelVars>>
  /\ UNCHANGED <<emitted, clock, statusResp>>

\* AuthCode.insertMany answers, with or without duplicate-key write errors
processBatch_insertMany(j) ==
  /\ pc[j] = "batch_insert"
  /\ LET r == run[j]
     IN /\ authCodes' = authCodes \cup inserted(r.newCodes, authCodes)
        /\ issueUpdate(j, [r EXCEPT
                             !.insertedCount = insertedCountOf(r.newCodes, authCodes),
                             !.batchDuplicates = @ + writeErrors(r.newCodes, authCodes)])
  /\ UNCHANGED <<authCodes0, brand, faults, db, upload, cancelVars>>
  /\ UNCHANGED <<emitted, clock, statusResp>>

\* AuthCode.insertMany fails with another error, after writing some documents
processBatch_insertManyThrows(j) ==
  /\ pc[j] = "batch_insert"
  /\ faults < MaxFaults
  /\ faults' = faults + 1
  /\ \E written \in SUBSET inserted(run[j].newCodes, authCodes) :
       authCodes' = authCodes \cup written
  /\ batchThrew(j, run[j])
  /\ UNCHANGED <<authCodes0, brand, db, upload, cancelVars>>
  /\ UNCHANGED <<emitted, clock, statusResp>>

\* the save of job.updateProgress; processBatch returns its stats
processBatch_updateProgress(j) ==
  /\ pc[j] = "batch_update"
  /\ db' = [db EXCEPT ![j] = save(db[j], job[j], {"progress"})]
  /\ batchReturned(j, run[j])
  /\ UNCHANGED <<storeVars, upload, cancelVars>>
  /\ emitProgress(j)
  /\ UNCHANGED <<clock, statusResp>>

(***************************************************************************)
(* processBulkUpload: after the pipeline                                   *)
(***************************************************************************)
\* Brand.findByIdAndUpdate(brandId, { $inc: { totalCodes: result.successful } })
processBulkUpload_incBrand(j) ==
  /\ pc[j] = "inc_brand"
  /\ brand' = IF brand.exists
              THEN [brand EXCEPT !.totalCodes = @ + result[j].stats.successful]
              ELSE brand
  /\ job' = [job EXCEPT ![j] = [@ EXCEPT !.status = "completed", !.endTime = TRUE]]
  /\ pc' = [pc EXCEPT ![j] = "save_completed"]
  /\ UNCHANGED <<authCodes, authCodes0, faults, db, upload, tmpFile, run, result, cancelVars>>
  /\ UNCHANGED <<emitted, clock, statusResp>>

\* await job.save() of the completed state; cleanupFile; return result
processBulkUpload_saveCompleted(j) ==
  /\ pc[j] = "save_completed"
  /\ db' = [db EXCEPT ![j] = save(db[j], job[j], {"status", "endTime"})]
  /\ cleanupFile(j)
  /\ result' = [result EXCEPT ![j] = [@ EXCEPT !.outcome = "resolved"]]
  /\ pc' = [pc EXCEPT ![j] = "done"]
  /\ UNCHANGED <<storeVars, upload, job, run, cancelVars>>
  /\ emitProgress(j)
  /\ UNCHANGED <<clock, statusResp>>

\* the save inside job.addError (job.save() after it finds nothing modified);
\* cleanupFile; throw error
processBulkUpload_saveFailed(j) ==
  /\ pc[j] = "save_failed"
  /\ db' = [db EXCEPT ![j] = save(db[j], job[j], {"status", "endTime", "errors"})]
  /\ cleanupFile(j)
  /\ result' = [result EXCEPT ![j] =
                  [noResult EXCEPT !.outcome = "rejected", !.error = run[j].error]]
  /\ pc' = [pc EXCEPT ![j] = "done"]
  /\ UNCHANGED <<storeVars, upload, job, run, cancelVars>>
  /\ emitProgress(j)
  /\ UNCHANGED <<clock, statusResp>>

\* the save inside job.addError rejects: the error leaves the catch block at
\* line 82, before emitProgress, cleanupFile and `throw error` are reached
processBulkUpload_saveFailedThrows(j) ==
  /\ pc[j] = "save_failed"
  /\ faults < MaxFaults
  /\ faults' = faults + 1
  /\ result' = [result EXCEPT ![j] =
                  [noResult EXCEPT !.outcome = "rejected", !.error = "save error"]]
  /\ pc' = [pc EXCEPT ![j] = "done"]
  /\ UNCHANGED <<authCodes, authCodes0, brand, db, upload, tmpFile, job, run, cancelVars>>
  /\ UNCHANGED <<emitted, clock, statusResp>>

(***************************************************************************)
(* cancelBulkUpload                                                        *)
(***************************************************************************)
\* only an already cancelled job is refused
cancellable_terminal(status) == status # "cancelled"

\* ['pending', 'processing'].includes(job.status)
cancellable(status) == status \in {"pending", "processing"}

\* every user passes the ownership check
isOwner_anyone(doc, user) == TRUE

\* job.userId.toString() === req.user._id.toString()
isOwner(doc, user) == doc.userId = user

\* the handler for the request of `user`: findOne, the ownership check, the
\* status test, and the in-memory change before the save
cancelBulkUpload_request(j, user) ==
  /\ pc[j] # "idle"
  /\ cancelPc[j] = "idle"
  /\ cancels[j] < MaxCancels
  /\ cancels' = [cancels EXCEPT ![j] = @ + 1]
  /\ IF db[j] = NoJob
     THEN /\ cancelResp' = [cancelResp EXCEPT ![j] = 404]
          /\ UNCHANGED <<cancelPc, cancelDoc>>
     ELSE IF ~isOwner(db[j], user)
          THEN /\ cancelResp' = [cancelResp EXCEPT ![j] = 403]
               /\ UNCHANGED <<cancelPc, cancelDoc>>
          ELSE IF ~cancellable(db[j].status)
               THEN /\ cancelResp' = [cancelResp EXCEPT ![j] = 400]
                    /\ UNCHANGED <<cancelPc, cancelDoc>>
               ELSE /\ cancelResp' = [cancelResp EXCEPT ![j] = 0]
                    /\ cancelDoc' = [cancelDoc EXCEPT ![j] =
                                       [db[j] EXCEPT !.status = "cancelled", !.endTime = TRUE]]
                    /\ cancelPc' = [cancelPc EXCEPT ![j] = "saving"]
  /\ UNCHANGED <<storeVars, db, upload, tmpFile, pc, job, run, result>>
  /\ UNCHANGED <<emitted, clock, statusResp>>

\* the user who uploaded the file of the job
uploader(j) == newJob.userId

\* the cancel request of the user who uploaded the file
cancelBulkUpload_findOne(j) == cancelBulkUpload_request(j, uploader(j))

\* await job.save(); res.json({ success: true, ..., data: job })
cancelBulkUpload_save(j) ==
  /\ cancelPc[j] = "saving"
  /\ db' = [db EXCEPT ![j] = save(db[j], cancelDoc[j], {"status", "endTime"})]
  /\ cancelResp' = [cancelResp EXCEPT ![j] = 200]
  /\ cancelPc' = [cancelPc EXCEPT ![j] = "idle"]
  /\ UNCHANGED <<storeVars, upload, tmpFile, pc, job, run, result, cancelDoc, cancels>>
  /\ UNCHANGED <<emitted, clock, statusResp>>

(***************************************************************************)
(* Specification                                                           *)
(***************************************************************************)
runStep(j) ==
  \/ processBulkUpload_findJob(j)
  \/ processBulkUpload_saveProcessing(j)
  \/ processBulkUpload_findBrand(j)
  \/ processExcel_saveTotal(j)
  \/ processExcel_row(j)
  \/ processCSV_data(j)
  \/ processCSV_end(j)
  \/ processCSV_parseError(j)
  \/ processCSV_readError(j)
  \/ processBatch_find(j)
  \/ processBatch_findThrows(j)
  \/ processBatch_insertMany(j)
  \/ processBatch_insertManyThrows(j)
  \/ processBatch_updateProgress(j)
  \/ processBulkUpload_incBrand(j)
  \/ processBulkUpload_saveCompleted(j)
  \/ processBulkUpload_saveFailed(j)
  \/ processBulkUpload_saveFailedThrows(j)

Next ==
  \E j \in Jobs :
    \/ runStep(j)
    \/ cancelBulkUpload_findOne(j)
    \/ cancelBulkUpload_save(j)

Spec == Init /\ [][Next]_vars

\* a run that can take a step eventually takes it: the event loop runs every
\* ready continuation, and every database operation eventually answers
FairSpec == Spec /\ \A j \in Jobs : WF_vars(runStep(j))

(***************************************************************************)
(* Properties                                                              *)
(***************************************************************************)
Existing == {j \in Jobs : db[j] # NoJob}

\* the rows of the file that extraction drops
dropped(rows) == {k \in DOMAIN rows : extractCode(rows[k]).kind # "code"}

\* the codes of the rows that pass extraction, in file order
validCodes(rows) ==
  LET kept == SelectSeq(rows, LAMBDA row : extractCode(row).kind = "code")
  IN [k \in DOMAIN kept |-> extractCode(kept[k]).code]

\* C1: the persisted progress of every job satisfies
\* processed = successful + failed + duplicates, in every state (so after every
\* flush and at completion)
C1_ProcessedIsSum ==
  \A j \in Existing :
    db[j].progress.processed =
      db[j].progress.successful + db[j].progress.failed + db[j].progress.duplicates

\* a completed job whose flushes counted successes and duplicates
C1_Witness ==
  \E j \in Existing :
    /\ db[j].status = "completed"
    /\ db[j].progress.successful > 0
    /\ db[j].progress.duplicates > 0

\* C2: once the persisted status of a job is completed, failed or cancelled it
\* never changes again
C2_TerminalStatusIsFinal ==
  [][\A j \in Jobs : db[j].status \in Terminal => db'[j].status = db[j].status]_vars

\* C3 (its part on the counters; the status part is C2): after a cancel request
\* was accepted for a job that was processing, and a flush has finished since
\* the request read the job (the in-flight batch), no further flush of codes
\* is started for that job, so no later flush increases a progress counter
C3_CancelHaltsRun ==
  [][\A j \in Jobs :
       (/\ cancelResp[j] = 200
        /\ cancelDoc[j].startTime
        /\ db[j].progress.processed > cancelDoc[j].progress.processed) =>
         ~(pc[j] # "batch_find" /\ pc'[j] = "batch_find" /\ Len(run'[j].codes) > 0)]_vars

\* C4: a cancel request that finds the job completed or failed is answered 400,
\* is over with that answer, and changes no stored job document
C4_CancelOfFinishedJobRejected ==
  [][\A j \in Jobs :
       (cancelBulkUpload_findOne(j) /\ db[j].status \in {"completed", "failed"}) =>
         /\ cancelResp'[j] = 400
         /\ cancelPc'[j] = "idle"
         /\ db' = db]_vars

\* a cancel request was refused for a job that is completed or failed
C4_Witness ==
  \E j \in Jobs : cancelResp[j] = 400 /\ db[j].status \in {"completed", "failed"}

\* C5: every scheduled run whose job record exists leads to a terminal status
C5_RunEndsTerminal ==
  \A j \in Jobs :
    (pc[j] = "scheduled" /\ db[j] # NoJob) ~> (db[j].status \in Terminal)

\* C6: a run over an unreadable file, with the job and the brand present and no
\* cancel request, ends with the job failed, for both file kinds
C6_UnreadableFileFails ==
  \A j \in Existing :
    (/\ upload[j].fileType \in {"csv", "xlsx"}
     /\ ~upload[j].readable
     /\ brand.exists
     /\ cancels[j] = 0
     /\ pc[j] \in {"done", "crashed"}) => db[j].status = "failed"

\* C7: a job that completed, with no storage fault and no cancel request, has
\* total = number of data rows, processed = total, percentage = 100 when there
\* are rows, and failed = number of rows dropped by extraction
C7_CompletedCountsEveryRow ==
  \A j \in Existing :
    (db[j].status = "completed" /\ faults = 0 /\ cancels[j] = 0) =>
      /\ db[j].progress.total = Len(upload[j].rows)
      /\ db[j].progress.processed = db[j].progress.total
      /\ (Len(upload[j].rows) > 0 => db[j].progress.percentage = 100)
      /\ db[j].progress.failed = Cardinality(dropped(upload[j].rows))

\* q = round(processed / total * 100): q is the integer nearest to the
\* quotient, the upper one at a tie: q - 1/2 <= 100 * processed / total < q + 1/2
IsNearestPercent(q, processed, total) ==
  /\ 2 * total * q <= 200 * processed + total
  /\ 200 * processed + total < 2 * total * (q + 1)

\* C8: in every state percentage = round(processed / total * 100) when
\* total > 0, and 0 when total = 0
C8_PercentageIsRounded ==
  \A j \in Existing :
    IF db[j].progress.total > 0
    THEN IsNearestPercent(db[j].progress.percentage, db[j].progress.processed,
                          db[j].progress.total)
    ELSE db[j].progress.percentage = 0

\* a flush left a percentage that had to be rounded up: 2 of 3 rows is 67
C8_Witness ==
  \E j \in Existing :
    /\ db[j].progress.total = 3
    /\ db[j].progress.processed = 2
    /\ db[j].progress.percentage = 67

\* C9: a completed job whose file holds the unstored identifier codeB exactly
\* twice and no other valid identifier, with no storage fault, counts exactly
\* one success and one duplicate
C9_TwiceIsOneSuccessOneDuplicate ==
  \A j \in Existing :
    (/\ db[j].status = "completed"
     /\ pc[j] = "done"
     /\ faults = 0
     /\ codeB \notin authCodes0
     /\ validCodes(upload[j].rows) = <<codeB, codeB>>) =>
      /\ db[j].progress.successful = 1
      /\ db[j].progress.duplicates = 1

distinctValidRows(rows) ==
  /\ dropped(rows) = {}
  /\ \A k, m \in DOMAIN rows : k # m => validCodes(rows)[k] # validCodes(rows)[m]

\* the case of C10: every row is a valid identifier, all distinct, none stored
\* before the job, more rows than one batch holds, no storage fault
C10_Case(j) ==
  /\ db[j] # NoJob
  /\ brand.exists
  /\ upload[j].fileType \in {"csv", "xlsx"}
  /\ faults = 0
  /\ Len(upload[j].rows) > BATCH_SIZE
  /\ distinctValidRows(upload[j].rows)
  /\ Range(validCodes(upload[j].rows)) \cap authCodes0 = {}

\* C10: a finished run over N distinct valid unstored identifiers in at least
\* two batches was completed, with successful = N, failed = 0, duplicates = 0,
\* and the store holds exactly the N new records more
C10_DistinctRowsAllInserted ==
  \A j \in Jobs :
    (pc[j] = "done" /\ C10_Case(j)) =>
      /\ result[j].outcome = "resolved"
      /\ cancelResp[j] # 200 => db[j].status = "completed"
      /\ db[j].progress.successful = Len(upload[j].rows)
      /\ db[j].progress.failed = 0
      /\ db[j].progress.duplicates = 0
      /\ authCodes0 \subseteq authCodes
      /\ authCodes \ authCodes0 = Range(validCodes(upload[j].rows))
      /\ Cardinality(authCodes) = Cardinality(authCodes0) + Len(upload[j].rows)

\* such a run finished as completed
C10_Witness ==
  \E j \in Jobs : pc[j] = "done" /\ C10_Case(j) /\ db[j].status = "completed"

\* C11: the stored error list of a job never holds more than MAX_ERRORS
\* entries, and a job that completed over a file with more malformed rows than
\* MAX_ERRORS (no storage fault, no cancel request) has a stored failed counter
\* equal to the number of rows that failed
C11_ErrorsCappedFailedTrue ==
  \A j \in Existing :
    /\ Len(db[j].errors) <= MAX_ERRORS
    /\ (/\ pc[j] = "done"
        /\ db[j].status = "completed"
        /\ faults = 0
        /\ cancels[j] = 0
        /\ Cardinality(dropped(upload[j].rows)) > MAX_ERRORS) =>
         db[j].progress.failed = Cardinality(dropped(upload[j].rows))

\* C12: when the run of a job is over (its promise settled), whatever the exit
\* path, a deletion of the temporary file was attempted: the file is removed or
\* its unlink threw; and when the unlink threw, the run settled as it does when
\* the file is removed: resolved exactly if the job was set completed
C12_CleanupOnEveryExit ==
  \A j \in Jobs :
    pc[j] = "done" =>
      /\ tmpFile[j] \in {"removed", "kept"}
      /\ tmpFile[j] = "kept" =>
           (result[j].outcome = "resolved" <=> (job[j] # NoJob /\ job[j].status = "completed"))

\* C13: the step of a scheduled run that finds no job record for its job id
\* ends the run with a rejected promise, attempts the deletion of the temporary
\* file, and leaves every job record, the identifier store and the brand's
\* code count as they were
C13_MissingJobChangesNothing ==
  [][\A j \in Jobs :
       (pc[j] = "scheduled" /\ db[j] = NoJob /\ pc'[j] # pc[j]) =>
         /\ pc'[j] = "done"
         /\ result'[j].outcome = "rejected"
         /\ result'[j].error = "Job not found"
         /\ tmpFile'[j] \in {"removed", "kept"}
         /\ db' = db
         /\ authCodes' = authCodes
         /\ brand' = brand]_vars

\* a run ended because its job record was missing
C13_Witness ==
  \E j \in Jobs :
    pc[j] = "done" /\ db[j] = NoJob /\ result[j].error = "Job not found"

\* C14: a run whose job record exists and that ended in a failure (its promise
\* was rejected, or the read stream of the file failed), with no cancel request
\* and with the save of the failed state answered, leaves the job failed with
\* exactly one error entry, of row 0 and code SYSTEM_ERROR
C14_FailureMarksJobFailed ==
  \A j \in Existing :
    (/\ cancels[j] = 0
     /\ \/ pc[j] = "crashed"
        \/ /\ pc[j] = "done"
           /\ result[j].outcome = "rejected"
           /\ result[j].error # "save error") =>
      /\ db[j].status = "failed"
      /\ Len(db[j].errors) = 1
      /\ db[j].errors[1].row = 0
      /\ db[j].errors[1].code = "SYSTEM_ERROR"

\* the identifier records inserted since the job was scheduled; one job runs
\* at a time here, so they are the records this job inserted
insertedSoFar == authCodes \ authCodes0

\* C15: when the run of a job has completed, the brand's code count has grown
\* by exactly the number of identifier records the job inserted
C15_BrandCountIsInserted ==
  \A j \in Existing :
    (pc[j] = "done" /\ result[j].outcome = "resolved") =>
      brand.totalCodes = Cardinality(insertedSoFar)

\* C16: when a flush of a job finishes (the save of its progress update is
\* answered), the stored successful counter of the job equals the number of
\* identifier records the job has inserted so far
C16_SuccessfulIsInserted ==
  [][\A j \in Existing :
       (pc[j] = "batch_update" /\ pc'[j] # "batch_update") =>
         db'[j].progress.successful = Cardinality(authCodes' \ authCodes0')]_vars

(***************************************************************************)
(* Two jobs at once                                                        *)
(***************************************************************************)
\* files that hold the unstored code codeB once, alone or after the stored code
SharedCodeFiles == {<<Row(codeB)>>, <<Row(codeA), Row(codeB)>>}

SharedCodeUploads ==
  {[fileType |-> t, readable |-> TRUE, rows |-> f, io |-> "present"] :
     t \in {"csv", "xlsx"}, f \in SharedCodeFiles}
  \cup {[fileType |-> t, readable |-> FALSE, rows |-> <<>>, io |-> "present"] : t \in {"csv", "xlsx"}}
  \cup {[fileType |-> "csv", readable |-> TRUE, rows |-> <<Row(codeB), malformedLine>>,
           io |-> "present"]}

\* the file can be read to its end
wellFormed(u) == u.readable /\ malformedLine \notin Range(u.rows)

\* bulkUpload accepted two files for the same brand, and both runs are scheduled;
\* the first file is well formed
InitTwo ==
  \E u1 \in {u \in SharedCodeUploads : wellFormed(u)}, u2 \in SharedCodeUploads :
    /\ authCodes = {codeA}
    /\ authCodes0 = {codeA}
    /\ brand = [exists |-> TRUE, totalCodes |-> 0]
    /\ faults = 0
    /\ db = [j \in Jobs |-> newJob]
    /\ upload = [j \in Jobs |-> IF j = "j1" THEN u1 ELSE u2]
    /\ tmpFile = [j \in Jobs |-> "present"]
    /\ pc = [j \in Jobs |-> "scheduled"]
    /\ job = [j \in Jobs |-> NoJob]
    /\ run = [j \in Jobs |-> newRun]
    /\ result = [j \in Jobs |-> noResult]
    /\ cancelPc = [j \in Jobs |-> "idle"]
    /\ cancelDoc = [j \in Jobs |-> NoJob]
    /\ cancelResp = [j \in Jobs |-> 0]
    /\ cancels = [j \in Jobs |-> 0]
    /\ emitted = [j \in Jobs |-> noEvent]
    /\ clock = 0
    /\ statusResp = [j \in Jobs |-> noAnswer]

SpecTwo == InitTwo /\ [][Next]_vars

\* the rows of the file that hold the stored code codeA
storedRows(rows) == {k \in DOMAIN rows : rows[k] = Row(codeA)}

\* C17: when the runs of two jobs whose files both hold the unstored code
\* codeB are over, with no storage fault, then whatever the interleaving the
\* store holds codeB, both runs resolved (neither was aborted), one job counts
\* codeB as successful and the other as a duplicate
C17_SharedCodeOnceEach ==
  (/\ \A j \in Jobs : pc[j] = "done" /\ wellFormed(upload[j])
   /\ faults = 0) =>
    /\ codeB \in authCodes
    /\ \A j \in Jobs : result[j].outcome = "resolved"
    /\ \E w \in Jobs :
         \A j \in Jobs :
           /\ db[j].progress.successful = (IF j = w THEN 1 ELSE 0)
           /\ db[j].progress.duplicates =
                Cardinality(storedRows(upload[j].rows)) + (IF j = w THEN 0 ELSE 1)
           /\ db[j].progress.failed = 0
           /\ result[j].stats.successful = db[j].progress.successful
           /\ result[j].stats.duplicates = db[j].progress.duplicates

\* both runs are over and one of them lost the race at the unique index: its
\* duplicate was reported by insertMany, not found by AuthCode.find
C17_Witness ==
  /\ \A j \in Jobs : pc[j] = "done" /\ wellFormed(upload[j])
  /\ faults = 0
  /\ \E j \in Jobs :
       /\ upload[j].rows = <<Row(codeB)>>
       /\ db[j].progress.duplicates = 1
       /\ result[j].errors = <<>>

\* the valid codes of the rows that come after the malformed line
codesAfterMalformed(rows) ==
  {extractCode(rows[k]).code :
     k \in {m \in DOMAIN rows :
              /\ extractCode(rows[m]).kind = "code"
              /\ \E n \in 1..(m - 1) : rows[n] = malformedLine}}

\* C18: a finished run over a csv file with a malformed line, with the job and
\* the brand present, no storage fault and no cancel request, has skipped the
\* line and counted it as a failure, has read the rows after it (their codes
\* are in the store), and has completed
C18_MalformedRowSkipped ==
  \A j \in Existing :
    (/\ pc[j] = "done"
     /\ upload[j].fileType = "csv"
     /\ malformedLine \in Range(upload[j].rows)
     /\ brand.exists
     /\ faults = 0
     /\ cancels[j] = 0) =>
      /\ db[j].status = "completed"
      /\ result[j].outcome = "resolved"
      /\ result[j].stats.failed >= 1
      /\ codesAfterMalformed(upload[j].rows) \subseteq authCodes

\* C19: an insertMany that fails with an error other than a duplicate-key error
\* (the store answers again afterwards) does not abort the job, in either
\* reader: the run does not enter the catch block of processBulkUpload and the
\* job is not set failed, so the remaining rows are still processed
C19_BatchWriteFailureNotFatal ==
  [][\A j \in Jobs :
       processBatch_insertManyThrows(j) =>
         /\ pc'[j] # "save_failed"
         /\ job'[j].status # "failed"]_vars

\* C20: when the insertMany of a batch answers, every entry the unique index
\* rejected is added to the batch's duplicates and none to its failed count,
\* and every other entry of the write is inserted: after the write each queued
\* code is stored, whatever was rejected before it
C20_UniquenessRejectsAreDuplicates ==
  [][\A j \in Jobs :
       processBatch_insertMany(j) =>
         LET newCodes == run[j].newCodes
             rejected == Len(newCodes) - Cardinality(authCodes' \ authCodes)
         IN /\ Range(newCodes) \subseteq authCodes'
            /\ run'[j].batchDuplicates = run[j].batchDuplicates + rejected
            /\ job'[j].progress.duplicates =
                 job[j].progress.duplicates + run[j].batchDuplicates + rejected
            /\ job'[j].progress.failed = job[j].progress.failed
            /\ job'[j].progress.successful =
                 job[j].progress.successful + Len(newCodes) - rejected]_vars

\* a write whose second entry was rejected for uniqueness and whose third entry
\* was inserted all the same
C20_Witness ==
  \E j \in Jobs :
    /\ pc[j] = "batch_update"
    /\ run[j].newCodes = <<codeB, codeB, codeC>>
    /\ {codeB, codeC} \subseteq authCodes
    /\ run[j].insertedCount = 2
    /\ run[j].batchDuplicates = 1

(***************************************************************************)
(* extractCode on code cells of every length                               *)
(***************************************************************************)
repeated(ch, n) == [k \in 1..n |-> ch]

\* a cell of n letters with a blank before and after, or not
LengthCells ==
  {repeated(" ", a) \o repeated("x", n) \o repeated(" ", b) :
     n \in 0..MaxCodeLen, a \in 0..1, b \in 0..1}

\* the job document of a run that has reached the reader of a one-row file
readingJob(t) ==
  LET started == [newJob EXCEPT !.status = "processing", !.startTime = TRUE]
  IN IF t = "xlsx" THEN updateProgress(started, [total |-> 1]) ELSE started

\* parse({ trim: true }): the blanks around a field that is not quoted are
\* dropped, a quoted field reaches the record as it is written
csvField(cell, quoted) == IF quoted THEN cell ELSE trim(cell)

\* the value of the cell in the row that the reader is handed
cellRead(t, cell, quoted) == IF t = "csv" THEN csvField(cell, quoted) ELSE cell

\* the run of j1 stands where its reader meets the only row of the file
InitExtract ==
  \E t \in {"csv", "xlsx"}, cell \in LengthCells, quoted \in BOOLEAN :
    /\ authCodes = {codeA}
    /\ authCodes0 = {codeA}
    /\ brand = [exists |-> TRUE, totalCodes |-> 0]
    /\ faults = 0
    /\ db = [j \in Jobs |-> IF j = "j1" THEN readingJob(t) ELSE NoJob]
    /\ upload = [j \in Jobs |->
                   IF j = "j1"
                   THEN [fileType |-> t, readable |-> TRUE,
                         rows |-> <<Row(cellRead(t, cell, quoted))>>, io |-> "present"]
                   ELSE NoUpload]
    /\ tmpFile = [j \in Jobs |-> IF j = "j1" THEN "present" ELSE "none"]
    /\ pc = [j \in Jobs |->
               IF j = "j1" THEN (IF t = "csv" THEN "csv_stream" ELSE "xlsx_loop")
               ELSE "idle"]
    /\ job = [j \in Jobs |-> IF j = "j1" THEN readingJob(t) ELSE NoJob]
    /\ run = [j \in Jobs |-> newRun]
    /\ result = [j \in Jobs |-> noResult]
    /\ cancelPc = [j \in Jobs |-> "idle"]
    /\ cancelDoc = [j \in Jobs |-> NoJob]
    /\ cancelResp = [j \in Jobs |-> 0]
    /\ cancels = [j \in Jobs |-> 0]
    /\ emitted = [j \in Jobs |->
                    IF j = "j1"
                    THEN progressEvent(IF t = "csv" THEN 1 ELSE 2, readingJob(t))
                    ELSE noEvent]
    /\ clock = 0
    /\ statusResp = [j \in Jobs |-> noAnswer]

\* the row is read: extractCode is applied to it
NextExtract == \E j \in Jobs : processCSV_data(j) \/ processExcel_row(j)

SpecExtract == InitExtract /\ [][NextExtract]_vars

\* the number of letters of the only cell of the file: its trimmed length
letters(j) == Len(SelectSeq(upload[j].rows[1][1][2], LAMBDA ch : ch = "x"))

\* the only row of the file has been through extractCode
extracted(j) ==
  /\ upload[j] # NoUpload
  /\ run[j].i > 0 \/ pc[j] \notin {"csv_stream", "xlsx_loop", "idle"}

\* C21: extractCode accepts a cell exactly when its trimmed length is in
\* 3..100: lengths 3 and 100 are queued with the trimmed code, lengths 2 and
\* 101 (and every other length from 1 on) are refused with the length error
C21_LengthBoundary ==
  \A j \in Jobs :
    extracted(j) =>
      /\ letters(j) \in 3..100 <=>
           run[j].codes = <<[code |-> repeated("x", letters(j)),
                             rowNumber |-> IF upload[j].fileType = "csv" THEN 1 ELSE 2]>>
      /\ letters(j) \notin 3..100 =>
           /\ run[j].codes = <<>>
           /\ run[j].failedCount = 1
           /\ letters(j) >= 1 => run[j].errors[1].error = lengthMessage

\* the four cells of the boundary, with blanks around them, have been through
\* extractCode: this one has 100 letters and was accepted
C21_Witness ==
  \E j \in Jobs :
    /\ extracted(j)
    /\ letters(j) = 100
    /\ Len(upload[j].rows[1][1][2]) = 102
    /\ Len(run[j].codes) = 1

\* the errors the reader recorded for rows that extraction dropped
extractionErrors(r) ==
  {e \in Range(r.errors) : e.error \in {"Empty or missing code", lengthMessage}}

\* the reader of the job has returned
readerReturned(j) ==
  \/ pc[j] \in {"inc_brand", "save_completed"}
  \/ pc[j] = "done" /\ result[j].outcome = "resolved"

\* C22: in a spreadsheet job the k-th data row is reported with row number
\* k + 1: every extraction error and every queued code carries the number of
\* its row plus one, and once the reader has returned the rows reported as
\* dropped are exactly the dropped rows, each under its number plus one
C22_SpreadsheetRowNumbers ==
  \A j \in Jobs :
    upload[j].fileType = "xlsx" =>
      LET rows == upload[j].rows
      IN /\ \A e \in extractionErrors(run[j]) :
              /\ e.row - 1 \in DOMAIN rows
              /\ extractCode(rows[e.row - 1]).kind =
                   (IF e.error = lengthMessage THEN "throw" ELSE "null")
         /\ \A c \in Range(run[j].codes) :
              /\ c.rowNumber - 1 \in DOMAIN rows
              /\ extractCode(rows[c.rowNumber - 1]) = [kind |-> "code", code |-> c.code]
         /\ readerReturned(j) =>
              {e.row : e \in extractionErrors(run[j])} = {k + 1 : k \in dropped(rows)}

\* a spreadsheet of three data rows, all dropped, reported as rows 2, 3 and 4
C22_Witness ==
  \E j \in Jobs :
    /\ upload[j].fileType = "xlsx"
    /\ Len(upload[j].rows) = 3
    /\ readerReturned(j)
    /\ Len(run[j].errors) = 3
    /\ [k \in 1..3 |-> run[j].errors[k].row] = <<2, 3, 4>>

\* C23: when a run has completed with no storage fault, every row that passed
\* extraction has been handed to one flush: the flushes were handed as many
\* codes as rows passed, and each such code is in the store
C23_EveryPassingRowFlushed ==
  \A j \in Existing :
    (pc[j] = "done" /\ result[j].outcome = "resolved" /\ faults = 0) =>
      /\ result[j].stats.processed = Len(validCodes(upload[j].rows))
      /\ Range(validCodes(upload[j].rows)) \subseteq authCodes

\* a flush of the job is in flight
inFlight(j) == pc[j] \in {"batch_find", "batch_insert", "batch_update"}

\* C24: while a flush of a csv job is in flight no row is consumed and the
\* batch buffer is not changed (when the flush returns the buffer is kept or
\* emptied), and the codes a job writes are codes of the one batch in flight,
\* so the write of a batch is over before a code of the next one is written
C24_PausedDuringFlush ==
  [][\A j \in Jobs :
       (upload[j].fileType = "csv" /\ inFlight(j)) =>
         /\ run'[j].i = run[j].i
         /\ inFlight(j)' => run'[j].codes = run[j].codes
         /\ run'[j].codes \in {run[j].codes, <<>>}
         /\ authCodes' # authCodes =>
              /\ pc[j] = "batch_insert"
              /\ (authCodes' \ authCodes) \subseteq {c.code : c \in Range(run[j].codes)}]_vars

\* a flush of a full batch of a csv job is in flight while rows are left to read
C24_Witness ==
  \E j \in Jobs :
    /\ upload[j].fileType = "csv"
    /\ pc[j] = "batch_insert"
    /\ run[j].ret = "csv_data"
    /\ run[j].i < Len(upload[j].rows)

\* C25: the batch handed to a flush never holds more than BATCH_SIZE codes
C25_FlushWithinBatchSize ==
  \A j \in Jobs : inFlight(j) => Len(run[j].codes) <= BATCH_SIZE

\* C26: when the insertMany of a batch fails on entries with an error that is
\* not a duplicate-key error, the batch still reaches its progress update, with
\* those entries added to the failed counter and not to the duplicates, and an
\* error is recorded in the job's error list while it is below the cap
C26_WriteErrorCountsAsFailed ==
  [][\A j \in Jobs :
       processBatch_insertManyThrows(j) =>
         /\ pc'[j] = "batch_update"
         /\ job'[j].progress.failed > job[j].progress.failed
         /\ job'[j].progress.duplicates = job[j].progress.duplicates + run[j].batchDuplicates
         /\ Len(job[j].errors) < MAX_ERRORS => Len(job'[j].errors) > Len(job[j].errors)]_vars

\* the 'Duplicate code' row errors the run has recorded
duplicateRowErrors(r) == SelectSeq(r.errors, LAMBDA e : e.error = "Duplicate code")

\* C27: when the reader has returned with no storage fault, every identifier
\* it counted as a duplicate has its 'Duplicate code' row error: there are as
\* many such errors as duplicates counted, each with the row number of a row
\* that holds its code
C27_DuplicatesHaveRowErrors ==
  \A j \in Existing :
    (readerReturned(j) /\ faults = 0) =>
      /\ Len(duplicateRowErrors(run[j])) = result[j].stats.duplicates
      /\ \A e \in Range(duplicateRowErrors(run[j])) :
           LET k == IF upload[j].fileType = "csv" THEN e.row ELSE e.row - 1
           IN k \in DOMAIN upload[j].rows /\ extractCode(upload[j].rows[k]).code = e.code

\* the number under which the reader reports the k-th data row
rowNumberOf(j, k) == IF upload[j].fileType = "csv" THEN k ELSE rowNumberExcel(k - 1)

\* C28: when a job has completed, with no storage fault and no cancel request,
\* and extraction dropped at most MAX_ERRORS rows, every dropped row has an
\* entry with its row number in the stored error list of the job (the list a
\* status read returns)
C28_DroppedRowsPersisted ==
  \A j \in Existing :
    (/\ pc[j] = "done"
     /\ db[j].status = "completed"
     /\ faults = 0
     /\ cancels[j] = 0
     /\ Cardinality(dropped(upload[j].rows)) <= MAX_ERRORS) =>
      \A k \in dropped(upload[j].rows) :
        \E e \in Range(db[j].errors) : e.row = rowNumberOf(j, k)

C30_EventMatchesStoredJob ==
  [][\A j \in Existing :
       (pc[j] = "batch_update" /\ pc'[j] # "batch_update") =>
         /\ emitted'[j].n = emitted[j].n + 1
         /\ emitted'[j].progress = db'[j].progress
         /\ emitted'[j].status = db'[j].status]_vars

(***************************************************************************)
(* The notification channel                                                *)
(***************************************************************************)
pushMessage == "push error"

\* the emit of emitProgress throws: no call of emitProgress is in a try of its own
emitThrows(j) == upload[j].io = "failing"

\* line 34 throws after the save of the processing state: the catch block runs
processBulkUpload_saveProcessing_emitThrows(j) ==
  /\ pc[j] = "save_processing"
  /\ emitThrows(j)
  /\ db' = [db EXCEPT ![j] = save(db[j], job[j], {"status", "startTime"})]
  /\ enterCatch(j, run[j], pushMessage)
  /\ UNCHANGED <<storeVars, upload, cancelVars, emitted, clock, statusResp>>

\* line 206 throws after the save of the total: the catch of processExcel
\* rethrows it as an Excel processing error
processExcel_saveTotal_emitThrows(j) ==
  /\ pc[j] = "save_total"
  /\ emitThrows(j)
  /\ db' = [db EXCEPT ![j] = save(db[j], job[j], {"progress"})]
  /\ enterCatch(j, run[j], "Excel processing error")
  /\ UNCHANGED <<storeVars, upload, cancelVars, emitted, clock, statusResp>>

\* line 329 throws after the save of the progress update: the catch of
\* processBatch rethrows it as a batch processing error
processBatch_emitThrows(j) ==
  /\ pc[j] = "batch_update"
  /\ emitThrows(j)
  /\ db' = [db EXCEPT ![j] = save(db[j], job[j], {"progress"})]
  /\ batchThrew(j, run[j])
  /\ UNCHANGED <<storeVars, upload, cancelVars, emitted, clock, statusResp>>

\* line 67 throws after the save of the completed state: the catch block runs
processBulkUpload_saveCompleted_emitThrows(j) ==
  /\ pc[j] = "save_completed"
  /\ emitThrows(j)
  /\ db' = [db EXCEPT ![j] = save(db[j], job[j], {"status", "endTime"})]
  /\ enterCatch(j, run[j], pushMessage)
  /\ UNCHANGED <<storeVars, upload, cancelVars, emitted, clock, statusResp>>

\* line 90 throws after the save of the failed state: the error leaves the
\* catch block before cleanupFile and `throw error` are reached
processBulkUpload_saveFailed_emitThrows(j) ==
  /\ pc[j] = "save_failed"
  /\ emitThrows(j)
  /\ db' = [db EXCEPT ![j] = save(db[j], job[j], {"status", "endTime", "errors"})]
  /\ result' = [result EXCEPT ![j] =
                  [noResult EXCEPT !.outcome = "rejected", !.error = pushMessage]]
  /\ pc' = [pc EXCEPT ![j] = "done"]
  /\ UNCHANGED <<storeVars, upload, tmpFile, job, run, cancelVars, emitted, clock, statusResp>>

\* the files of the first job: one batch, a stored code, a dropped row, and
\* two batches with a code that comes back
ChannelFiles ==
  {<<Row(codeB)>>,
   <<Row(codeA), Row(codeB)>>,
   <<Row(codeB), Row(shortCode)>>,
   <<Row(codeB), Row(codeC), Row(codeA), Row(codeB)>>}

\* the unstored codes of the second job are other codes than those of the first
renamed(c) == IF c = codeB THEN codeD ELSE IF c = codeC THEN codeE ELSE c

renamedFile(f) == [k \in DOMAIN f |-> Row(renamed(f[k][1][2]))]

\* processBulkUpload is called twice with the same file under other codes: j1
\* with the io of the server, j2 without io or with an io whose emit throws
InitChannel ==
  \E t \in {"csv", "xlsx"}, f \in ChannelFiles, c \in {"absent", "failing"} :
    /\ authCodes = {codeA}
    /\ authCodes0 = {codeA}
    /\ brand = [exists |-> TRUE, totalCodes |-> 0]
    /\ faults = 0
    /\ db = [j \in Jobs |-> newJob]
    /\ upload = [j \in Jobs |->
                   IF j = "j1"
                   THEN [fileType |-> t, readable |-> TRUE, rows |-> f, io |-> "present"]
                   ELSE [fileType |-> t, readable |-> TRUE, rows |-> renamedFile(f), io |-> c]]
    /\ tmpFile = [j \in Jobs |-> "present"]
    /\ pc = [j \in Jobs |-> "scheduled"]
    /\ job = [j \in Jobs |-> NoJob]
    /\ run = [j \in Jobs |-> newRun]
    /\ result = [j \in Jobs |-> noResult]
    /\ cancelPc = [j \in Jobs |-> "idle"]
    /\ cancelDoc = [j \in Jobs |-> NoJob]
    /\ cancelResp = [j \in Jobs |-> 0]
    /\ cancels = [j \in Jobs |-> 0]
    /\ emitted = [j \in Jobs |-> noEvent]
    /\ clock = 0
    /\ statusResp = [j \in Jobs |-> noAnswer]

\* the runs with a store that answers and no cancel request
NextChannel ==
  \E j \in Jobs :
    \/ processBulkUpload_findJob(j)
    \/ processBulkUpload_saveProcessing(j)
    \/ processBulkUpload_saveProcessing_emitThrows(j)
    \/ processBulkUpload_findBrand(j)
    \/ processExcel_saveTotal(j)
    \/ processExcel_saveTotal_emitThrows(j)
    \/ processExcel_row(j)
    \/ processCSV_data(j)
    \/ processCSV_end(j)
    \/ processBatch_find(j)
    \/ processBatch_insertMany(j)
    \/ processBatch_updateProgress(j)
    \/ processBatch_emitThrows(j)
    \/ processBulkUpload_incBrand(j)
    \/ processBulkUpload_saveCompleted(j)
    \/ processBulkUpload_saveCompleted_emitThrows(j)
    \/ processBulkUpload_saveFailed(j)
    \/ processBulkUpload_saveFailed_emitThrows(j)

SpecChannel == InitChannel /\ [][NextChannel]_vars

\* C31: when the run with the server's channel and the run of the same file
\* without a channel, or with a channel whose push fails, are both over, the
\* two job records are equal, the same codes of the two files are in the store,
\* the brand's code count grew by the same number for each, and the run
\* without a channel settled as the other did (it raised no error)
C31_ChannelDoesNotMatter ==
  (\A j \in Jobs : pc[j] = "done" /\ upload[j].io \in {"present", "absent", "failing"}) =>
    /\ db["j2"] = db["j1"]
    /\ {renamed(c) : c \in authCodes \cap {codeB, codeC}} = authCodes \cap {codeD, codeE}
    /\ brand.totalCodes = 2 * result["j1"].stats.successful
    /\ upload["j2"].io = "absent" =>
         /\ result["j2"].outcome = result["j1"].outcome
         /\ result["j2"].error = result["j1"].error
         /\ result["j2"].stats = result["j1"].stats

\* the same, for the run without a channel only
C31_AbsentOnly ==
  upload["j2"].io = "absent" => C31_ChannelDoesNotMatter

\* the row numbers of the list never go down
inRowOrder(errors) ==
  \A a, b \in DOMAIN errors : a < b => errors[a].row <= errors[b].row

\* C32: with no storage fault, the row errors a job has recorded are in source
\* order at every moment, and so is the error list its reader returns: of two
\* recorded errors the one with the smaller row number comes first
C32_RowErrorsInSourceOrder ==
  \A j \in Jobs :
    faults = 0 => inRowOrder(run[j].errors) /\ inRowOrder(result[j].errors)

\* the same for the errors of extraction alone
C32_ExtractionErrorsInOrder ==
  \A j \in Jobs :
    inRowOrder(SelectSeq(run[j].errors,
                         LAMBDA e : e.error \in {"Empty or missing code", lengthMessage}))

\* the same for the duplicate errors alone
C32_DuplicateErrorsInOrder ==
  \A j \in Jobs : faults = 0 => inRowOrder(duplicateRowErrors(run[j]))

\* C33: a row whose code value is empty or holds blanks only is dropped by
\* extraction with the error 'Empty or missing code', in both readers
C33_BlankIsEmptyError ==
  \A j \in Jobs :
    (extracted(j) /\ letters(j) = 0) =>
      /\ run[j].codes = <<>>
      /\ Len(run[j].errors) = 1
      /\ run[j].errors[1].error = "Empty or missing code"

\* the same for the empty value only
C33_EmptyIsEmptyError ==
  \A j \in Jobs :
    (extracted(j) /\ upload[j].rows[1][1][2] = emptyString) =>
      /\ run[j].codes = <<>>
      /\ Len(run[j].errors) = 1
      /\ run[j].errors[1].error = "Empty or missing code"

(***************************************************************************)
(* extractCode on rows of several columns                                  *)
(***************************************************************************)
\* column names: three of the aliases, and one that is no alias
AliasKeys == {"id", "code", "Code", "Authentication Code"}

\* values of a column; sheet_to_json({ defval: null }) gives null for an empty
\* cell, the csv parser gives ''
AliasValues(t) ==
  IF t = "xlsx" THEN {codeB, codeC, emptyString, NULL} ELSE {codeB, codeC, emptyString}

\* rows of one to three columns with different names
AliasRows(t) ==
  {row \in SeqsUpTo(AliasKeys \X AliasValues(t), 3) :
     /\ row # <<>>
     /\ \A a, b \in DOMAIN row : a # b => row[a][1] # row[b][1]}

\* the run of j1 stands where its reader meets the only row of the file
InitAlias ==
  \E t \in {"csv", "xlsx"} :
    \E row \in AliasRows(t) :
      /\ authCodes = {codeA}
      /\ authCodes0 = {codeA}
      /\ brand = [exists |-> TRUE, totalCodes |-> 0]
      /\ faults = 0
      /\ db = [j \in Jobs |-> IF j = "j1" THEN readingJob(t) ELSE NoJob]
      /\ upload = [j \in Jobs |->
                     IF j = "j1"
                     THEN [fileType |-> t, readable |-> TRUE, rows |-> <<row>>,
                           io |-> "present"]
                     ELSE NoUpload]
      /\ tmpFile = [j \in Jobs |-> IF j = "j1" THEN "present" ELSE "none"]
      /\ pc = [j \in Jobs |->
                 IF j = "j1" THEN (IF t = "csv" THEN "csv_stream" ELSE "xlsx_loop")
                 ELSE "idle"]
      /\ job = [j \in Jobs |-> IF j = "j1" THEN readingJob(t) ELSE NoJob]
      /\ run = [j \in Jobs |-> newRun]
      /\ result = [j \in Jobs |-> noResult]
      /\ cancelPc = [j \in Jobs |-> "idle"]
      /\ cancelDoc = [j \in Jobs |-> NoJob]
      /\ cancelResp = [j \in Jobs |-> 0]
      /\ cancels = [j \in Jobs |-> 0]
      /\ emitted = [j \in Jobs |->
                      IF j = "j1"
                      THEN progressEvent(IF t = "csv" THEN 1 ELSE 2, readingJob(t))
                      ELSE noEvent]
      /\ clock = 0
      /\ statusResp = [j \in Jobs |-> noAnswer]

SpecAlias == InitAlias /\ [][NextExtract]_vars

\* the aliases that are column names of the row, in the order of the list
presentAliases(row) ==
  SelectSeq(aliases, LAMBDA key : \E c \in DOMAIN row : row[c][1] = key)

\* the value the identifier is taken from: that of the first alias present
\* in the row, and that of the first column when no alias is present
valueOfFirstPresent(row) ==
  IF presentAliases(row) # <<>>
  THEN lookup(row, Head(presentAliases(row)))
  ELSE row[1][2]

\* the row number of the only row of the file
onlyRowNumber(j) == IF upload[j].fileType = "csv" THEN 1 ELSE 2

\* C34: the row is treated by the value of the first alias of the list that is
\* a column of the row, and by the value of the first column only when no
\* alias is a column: that value is queued as the code, or, when it is empty
\* or null, the row is dropped as empty or missing
C34_FirstPresentAlias ==
  \A j \in Jobs :
    (extracted(j) /\ upload[j].fileType \in {"csv", "xlsx"}) =>
      LET v == valueOfFirstPresent(upload[j].rows[1])
      IN IF truthy(v)
         THEN run[j].codes = <<[code |-> v, rowNumber |-> onlyRowNumber(j)]>>
         ELSE /\ run[j].codes = <<>>
              /\ Len(run[j].errors) = 1
              /\ run[j].errors[1].error = "Empty or missing code"

\* the same for the rows in which no alias column is empty or null
C34_NoEmptyAlias ==
  (\A c \in DOMAIN upload["j1"].rows[1] :
     upload["j1"].rows[1][c][1] # "id" => truthy(upload["j1"].rows[1][c][2])) =>
    C34_FirstPresentAlias

(***************************************************************************)
(* The same rows as a delimited-text file and as a spreadsheet             *)
(***************************************************************************)
\* j1 reads the rows from a csv file, j2 reads the same rows, under other
\* codes, from the first sheet of a workbook
InitFormats ==
  \E f \in ChannelFiles :
    /\ authCodes = {codeA}
    /\ authCodes0 = {codeA}
    /\ brand = [exists |-> TRUE, totalCodes |-> 0]
    /\ faults = 0
    /\ db = [j \in Jobs |-> newJob]
    /\ upload = [j \in Jobs |->
                   IF j = "j1"
                   THEN [fileType |-> "csv", readable |-> TRUE, rows |-> f, io |-> "present"]
                   ELSE [fileType |-> "xlsx", readable |-> TRUE, rows |-> renamedFile(f),
                         io |-> "present"]]
    /\ tmpFile = [j \in Jobs |-> "present"]
    /\ pc = [j \in Jobs |-> "scheduled"]
    /\ job = [j \in Jobs |-> NoJob]
    /\ run = [j \in Jobs |-> newRun]
    /\ result = [j \in Jobs |-> noResult]
    /\ cancelPc = [j \in Jobs |-> "idle"]
    /\ cancelDoc = [j \in Jobs |-> NoJob]
    /\ cancelResp = [j \in Jobs |-> 0]
    /\ cancels = [j \in Jobs |-> 0]
    /\ emitted = [j \in Jobs |-> noEvent]
    /\ clock = 0
    /\ statusResp = [j \in Jobs |-> noAnswer]

\* the runs with a store that answers, a channel that works and no cancel request
NextFormats ==
  \E j \in Jobs :
    \/ processBulkUpload_findJob(j)
    \/ processBulkUpload_saveProcessing(j)
    \/ processBulkUpload_findBrand(j)
    \/ processExcel_saveTotal(j)
    \/ processExcel_row(j)
    \/ processCSV_data(j)
    \/ processCSV_end(j)
    \/ processBatch_find(j)
    \/ processBatch_insertMany(j)
    \/ processBatch_updateProgress(j)
    \/ processBulkUpload_incBrand(j)
    \/ processBulkUpload_saveCompleted(j)

SpecFormats == InitFormats /\ [][NextFormats]_vars

bothDone == \A j \in Jobs : pc[j] = "done"

\* the codes of the first file in the store are those of the second file
sameStoreContents ==
  {renamed(c) : c \in authCodes \cap {codeB, codeC}} = authCodes \cap {codeD, codeE}

\* C35: when the csv job and the xlsx job over the same rows are both over,
\* they have the same stored status, the same codes of their files are in the
\* store, and their stored total, processed, successful, failed and
\* duplicates counters are equal
C35_SameOutcomeForBothFormats ==
  (bothDone /\ upload["j1"].fileType = "csv" /\ upload["j2"].fileType = "xlsx") =>
    /\ db["j1"].status = db["j2"].status
    /\ sameStoreContents
    /\ db["j1"].progress.total = db["j2"].progress.total
    /\ db["j1"].progress.processed = db["j2"].progress.processed
    /\ db["j1"].progress.successful = db["j2"].progress.successful
    /\ db["j1"].progress.failed = db["j2"].progress.failed
    /\ db["j1"].progress.duplicates = db["j2"].progress.duplicates

\* the status alone
C35_SameStatus ==
  (bothDone /\ upload["j1"].fileType = "csv" /\ upload["j2"].fileType = "xlsx") =>
    db["j1"].status = db["j2"].status /\ db["j1"].status = "completed"

\* the store and the four counters of the flushes, for rows whose last row
\* does not fail the length test
C35_SameButTotal ==
  (/\ bothDone /\ upload["j1"].fileType = "csv" /\ upload["j2"].fileType = "xlsx"
   /\ extractCode(upload["j1"].rows[Len(upload["j1"].rows)]).kind # "throw") =>
    /\ sameStoreContents
    /\ db["j1"].progress.processed = db["j2"].progress.processed
    /\ db["j1"].progress.successful = db["j2"].progress.successful
    /\ db["j1"].progress.failed = db["j2"].progress.failed
    /\ db["j1"].progress.duplicates = db["j2"].progress.duplicates

\* the total of the csv job
C35_TotalOfCsvIsZero ==
  upload["j1"].fileType = "csv" => db["j1"].progress.total = 0

(***************************************************************************)
(* cleanupOldJobs                                                          *)
(***************************************************************************)
\* the latest day
MaxDay == 3

Statuses == {"pending", "processing", "completed", "failed", "cancelled"}

\* a job that is exactly as old as the window is deleted as well
expired_inclusive(createdAt, now, daysOld) == createdAt <= now - daysOld

\* createdAt: { $lt: cutoffDate }, cutoffDate being now less daysOld days
expired(createdAt, now, daysOld) == createdAt < now - daysOld

\* the filter of deleteMany
matchesCleanup(doc, now, daysOld) ==
  /\ doc # NoJob
  /\ doc.status \in {"completed", "failed", "cancelled"}
  /\ expired(doc.createdAt, now, daysOld)

\* BulkUploadJob.cleanupOldJobs(daysOld)
cleanupOldJobs(daysOld) ==
  /\ db' = [j \in Jobs |-> IF matchesCleanup(db[j], clock, daysOld) THEN NoJob ELSE db[j]]
  /\ UNCHANGED <<storeVars, upload, tmpFile, pc, job, run, result, cancelVars, emitted, clock, statusResp>>

\* the collection holds two jobs of any status, created on days up to today;
\* no run of this process is at work on them
InitCleanup ==
  \E today \in 0..MaxDay :
    \E s1, s2 \in Statuses, c1, c2 \in 0..today :
      /\ clock = today
      /\ db = [j \in Jobs |->
                 IF j = "j1"
                 THEN [newJob EXCEPT !.status = s1, !.createdAt = c1]
                 ELSE [newJob EXCEPT !.status = s2, !.createdAt = c2]]
      /\ authCodes = {codeA}
      /\ authCodes0 = {codeA}
      /\ brand = [exists |-> TRUE, totalCodes |-> 0]
      /\ faults = 0
      /\ upload = [j \in Jobs |-> NoUpload]
      /\ tmpFile = [j \in Jobs |-> "none"]
      /\ pc = [j \in Jobs |-> "idle"]
      /\ job = [j \in Jobs |-> NoJob]
      /\ run = [j \in Jobs |-> newRun]
      /\ result = [j \in Jobs |-> noResult]
      /\ cancelPc = [j \in Jobs |-> "idle"]
      /\ cancelDoc = [j \in Jobs |-> NoJob]
      /\ cancelResp = [j \in Jobs |-> 0]
      /\ cancels = [j \in Jobs |-> 0]
      /\ emitted = [j \in Jobs |-> noEvent]
      /\ statusResp = [j \in Jobs |-> noAnswer]

NextCleanup == \E daysOld \in 0..MaxDay : cleanupOldJobs(daysOld)

SpecCleanup == InitCleanup /\ [][NextCleanup]_vars

\* C36: a call of cleanupOldJobs with a window of d days deletes a job only
\* if its status is completed, failed or cancelled and it was created more
\* than d days ago: a pending or processing job, and a terminal job that is
\* not older than the window, stays in the collection
C36_CleanupDeletesOnlyOldTerminal ==
  [][\A d \in 0..MaxDay :
       cleanupOldJobs(d) =>
         \A j \in Jobs :
           (db[j] # NoJob /\ db'[j] = NoJob) =>
             /\ db[j].status \in {"completed", "failed", "cancelled"}
             /\ db[j].status \notin {"pending", "processing"}
             /\ clock - db[j].createdAt > d]_vars

\* a call deleted one job and left a terminal job that is a day old or more
C36_Witness ==
  /\ db["j1"] = NoJob
  /\ db["j2"] # NoJob
  /\ db["j2"].status \in {"completed", "failed", "cancelled"}
  /\ db["j2"].createdAt < clock

\* no call deletes a job that is pending or processing
C36_RunningJobsStay ==
  [][\A j \in Jobs :
       db[j].status \in {"pending", "processing"} => db'[j] = db[j]]_vars

\* the run of the job is between its load of the job and its last save
running(j) ==
  pc[j] \in {"save_processing", "find_brand", "save_total", "xlsx_loop", "csv_stream",
             "batch_find", "batch_insert", "batch_update"}

\* the job was stored as cancelled before its run loaded it: the run has not
\* started yet, or the document it loaded carries the summary.endTime that
\* only the cancel request can have set by then
cancelledBeforeStart(j) ==
  \/ pc[j] = "scheduled" /\ db[j].status = "cancelled"
  \/ running(j) /\ job[j].endTime

\* C37: for a job that was stored as cancelled while it was pending, before
\* its run started, no step of the run that starts afterwards changes the
\* stored status from cancelled or inserts an identifier record
C37_CancelledPendingNeverProcessed ==
  [][\A j \in Jobs :
       cancelledBeforeStart(j) =>
         /\ db'[j].status = "cancelled"
         /\ authCodes' = authCodes]_vars

\* every job of the brand has a terminal stored status and its run is over
allJobsOver ==
  /\ Existing # {}
  /\ \A j \in Existing : pc[j] = "done" /\ db[j].status \in Terminal

\* C38: when every job of the brand is over with a terminal status, the
\* brand's code count has grown by the number of identifier records the jobs
\* inserted, whether they ended completed, failed or cancelled
C38_BrandCountWhenAllTerminal ==
  (allJobsOver /\ brand.exists) => brand.totalCodes = Cardinality(insertedSoFar)

\* the same for a job that ended failed, with no cancel request and no failed
\* insertMany: the flushes before the failure were committed and counted
C38_FailedJobCounted ==
  \A j \in Existing :
    (/\ pc[j] = "done" /\ db[j].status = "failed" /\ cancels[j] = 0 /\ brand.exists
     /\ db[j].progress.successful = Cardinality(insertedSoFar)) =>
      brand.totalCodes = Cardinality(insertedSoFar)

\* the same for a job that ended completed, with no storage fault
C38_CompletedJobCounted ==
  \A j \in Existing :
    (pc[j] = "done" /\ db[j].status = "completed" /\ faults = 0 /\ brand.exists) =>
      brand.totalCodes = Cardinality(insertedSoFar)

\* the job has completed: its run returned a result and the stored status is completed
completedJob(j) ==
  pc[j] = "done" /\ result[j].outcome = "resolved" /\ db[j].status = "completed"

\* C39: when a job has completed, the processed, successful, failed and
\* duplicates values of the result the pipeline returned are the stored
\* progress counters of the job
C39_ResultEqualsStoredCounters ==
  \A j \in Existing :
    completedJob(j) =>
      /\ result[j].stats.processed = db[j].progress.processed
      /\ result[j].stats.successful = db[j].progress.successful
      /\ result[j].stats.failed = db[j].progress.failed
      /\ result[j].stats.duplicates = db[j].progress.duplicates

\* the same without the failed value
C39_ThreeCountersEqual ==
  \A j \in Existing :
    completedJob(j) =>
      /\ result[j].stats.processed = db[j].progress.processed
      /\ result[j].stats.successful = db[j].progress.successful
      /\ result[j].stats.duplicates = db[j].progress.duplicates

\* the failed value, when extraction drops no row and no storage fault occurs
C39_FailedEqualWithoutDrops ==
  \A j \in Existing :
    (completedJob(j) /\ faults = 0 /\ dropped(upload[j].rows) = {}) =>
      result[j].stats.failed = db[j].progress.failed

(***************************************************************************)
(* Requests of any user: cancelBulkUpload and getBulkUploadStatus          *)
(***************************************************************************)
\* what the status read returns of the job: status, progress, first 50 errors
statusData(doc) ==
  [status |-> doc.status, progress |-> doc.progress,
   errors |-> SubSeq(doc.errors, 1, IF Len(doc.errors) < 50 THEN Len(doc.errors) ELSE 50)]

\* getBulkUploadStatus for the request of `user`
getBulkUploadStatus(j, user) ==
  /\ statusResp' = [statusResp EXCEPT ![j] =
                      IF db[j] = NoJob THEN [code |-> 404, data |-> NoJob]
                      ELSE IF ~isOwner(db[j], user) THEN [code |-> 403, data |-> NoJob]
                      ELSE [code |-> 200, data |-> statusData(db[j])]]
  /\ UNCHANGED <<storeVars, db, upload, tmpFile, pc, job, run, result, cancelVars,
                 emitted, clock>>

\* no run of a pending job has started; the run of a processing job died with
\* the process; the run of a terminal job is over
pcOf(status) ==
  IF status = "pending" THEN "scheduled"
  ELSE IF status = "processing" THEN "crashed" ELSE "done"

\* the collection holds two jobs of any status, each uploaded by one of the users
InitAccess ==
  \E s1, s2 \in Statuses, o1, o2 \in Users :
    /\ db = [j \in Jobs |->
               IF j = "j1"
               THEN [newJob EXCEPT !.status = s1, !.userId = o1]
               ELSE [newJob EXCEPT !.status = s2, !.userId = o2]]
    /\ pc = [j \in Jobs |-> IF j = "j1" THEN pcOf(s1) ELSE pcOf(s2)]
    /\ authCodes = {codeA}
    /\ authCodes0 = {codeA}
    /\ brand = [exists |-> TRUE, totalCodes |-> 0]
    /\ faults = 0
    /\ upload = [j \in Jobs |-> NoUpload]
    /\ tmpFile = [j \in Jobs |-> "none"]
    /\ job = [j \in Jobs |-> NoJob]
    /\ run = [j \in Jobs |-> newRun]
    /\ result = [j \in Jobs |-> noResult]
    /\ cancelPc = [j \in Jobs |-> "idle"]
    /\ cancelDoc = [j \in Jobs |-> NoJob]
    /\ cancelResp = [j \in Jobs |-> 0]
    /\ cancels = [j \in Jobs |-> 0]
    /\ emitted = [j \in Jobs |-> noEvent]
    /\ clock = 0
    /\ statusResp = [j \in Jobs |-> noAnswer]

NextAccess ==
  \E j \in Jobs :
    \/ \E user \in Users : cancelBulkUpload_request(j, user)
    \/ cancelBulkUpload_save(j)
    \/ \E user \in Users : getBulkUploadStatus(j, user)

SpecAccess == InitAccess /\ [][NextAccess]_vars

\* C40: a cancel request and a status read for a job that exists, sent by a
\* user who is not the user the job belongs to, are answered 403; the cancel
\* request is over with that answer and leaves every job record as it is, and
\* the status read returns nothing of the job
C40_OnlyOwnerCancelsAndReads ==
  [][\A j \in Jobs : \A user \in Users :
       (db[j] # NoJob /\ user # db[j].userId) =>
         /\ cancelBulkUpload_request(j, user) =>
              /\ cancelResp'[j] = 403
              /\ cancelPc'[j] = "idle"
              /\ db' = db
         /\ getBulkUploadStatus(j, user) =>
              /\ statusResp'[j] = [code |-> 403, data |-> NoJob]
              /\ db' = db]_vars

\* a cancel request and a status read of the other user were refused for a
\* job that can be cancelled, and the job is as it was
C40_Witness ==
  \E j \in Jobs :
    /\ cancelResp[j] = 403
    /\ statusResp[j].code = 403
    /\ db[j].status \in {"pending", "processing"}
====
